---- MODULE Spec2Model ----
(***************************************************************************)
(* CampusLink backend: the record definitions (schemas.py), the            *)
(* serialization helpers and the create/list endpoints (main.py), over a   *)
(* document store reached through create_document / get_documents.         *)
(***************************************************************************)
EXTENDS Integers, Sequences, FiniteSets, TLC

\* ------------------------------------------------------------- bounds
\* Documents the store may hold in total (all collections together).
MaxDocs == 3
\* Handler threads serving requests at the same time.
MaxWorkers == 2
\* Documents in a sequence handed to serialize_list.
MaxSeqLen == 2

\* ------------------------------------------------------ Python values
\* A Python / BSON value is a tagged tuple: the tag is its type.
None == <<"None">>
Str(s) == <<"str", s>>
Bool(b) == <<"bool", b>>
List(xs) == <<"list", xs>>
ObjectId(n) == <<"ObjectId", n>>
DateTime(t) == <<"datetime", t>>

isinstance(v, ty) == v[1] = ty

\* str(v) of an ObjectId: its canonical string form (injective in the id).
str(v) == Str("oid" \o ToString(v[2]))

\* Truthiness of an Optional[str] parameter: None and "" are falsy.
Truthy(v) == v # None /\ v # Str("")

Min(a, b) == IF a <= b THEN a ELSE b

\* ------------------------------------------------------ serialization
\* serialize_doc without the rename of "_id".
serialize_doc_keep_id(doc) ==
    [k \in DOMAIN doc |-> IF isinstance(doc[k], "ObjectId") THEN str(doc[k]) ELSE doc[k]]

\* serialize_doc without the conversion to strings.
serialize_doc_no_str(doc) ==
    IF "_id" \in DOMAIN doc
    THEN [k \in (DOMAIN doc \ {"_id"}) \cup {"id"} |->
            IF k = "id" THEN doc["_id"] ELSE doc[k]]
    ELSE doc

\* serialize_doc with out["id"] = out.pop("_id", None), whether "_id" is there or not.
serialize_doc_pop_default(doc) ==
    LET out == [k \in DOMAIN doc |->
                  IF isinstance(doc[k], "ObjectId") THEN str(doc[k]) ELSE doc[k]]
    IN  [k \in (DOMAIN out \ {"_id"}) \cup {"id"} |->
            IF k = "id" THEN (IF "_id" \in DOMAIN out THEN out["_id"] ELSE None)
            ELSE out[k]]

serialize_doc(doc) ==
    LET out == [k \in DOMAIN doc |->
                  IF isinstance(doc[k], "ObjectId") THEN str(doc[k]) ELSE doc[k]]
    IN  IF "_id" \in DOMAIN out
        THEN [k \in (DOMAIN out \ {"_id"}) \cup {"id"} |->
                IF k = "id" THEN out["_id"] ELSE out[k]]
        ELSE out

serialize_list(docs) == [i \in 1..Len(docs) |-> serialize_doc(docs[i])]

\* ------------------------------------------------- record definitions
Role == {"student", "professor", "company"}
PostType == {"question", "internship_request", "discussion"}

\* EmailStr: the strings the e-mail validator accepts, among those used here.
ValidEmails == {"ann@campus.edu"}

Required(body, k) == k \in DOMAIN body /\ isinstance(body[k], "str")
Optional(body, k) ==
    IF k \in DOMAIN body THEN body[k] = None \/ isinstance(body[k], "str") ELSE TRUE
Literal(body, k, S) == Required(body, k) /\ body[k][2] \in S
Default(body, k, dflt) == IF k \in DOMAIN body THEN body[k] ELSE dflt

\* User with role: str in place of role: Role.
User_validate_any_role(body) ==
    /\ Required(body, "name")
    /\ Required(body, "email") /\ body["email"][2] \in ValidEmails
    /\ Required(body, "role")
    /\ \A k \in {"college", "department", "company_name", "headline"} : Optional(body, k)
    /\ "verified" \in DOMAIN body => isinstance(body["verified"], "bool")

User_validate(body) ==
    /\ Required(body, "name")
    /\ Required(body, "email") /\ body["email"][2] \in ValidEmails
    /\ Literal(body, "role", Role)
    /\ \A k \in {"college", "department", "company_name", "headline"} : Optional(body, k)
    /\ "verified" \in DOMAIN body => isinstance(body["verified"], "bool")

User(body) ==
    [k \in {"name", "email", "role", "college", "department", "company_name",
            "headline", "verified"} |->
        IF k = "verified" THEN Default(body, k, Bool(FALSE)) ELSE Default(body, k, None)]

Post_validate(body) ==
    /\ Literal(body, "type", PostType)
    /\ Required(body, "title")
    /\ Required(body, "content")
    /\ "tags" \in DOMAIN body =>
          /\ isinstance(body["tags"], "list")
          /\ \A i \in 1..Len(body["tags"][2]) : isinstance(body["tags"][2][i], "str")
    /\ Required(body, "created_by")

Post(body) ==
    [k \in {"type", "title", "content", "tags", "created_by"} |->
        IF k = "tags" THEN Default(body, k, List(<<>>)) ELSE body[k]]

Comment_validate(body) ==
    /\ Required(body, "post_id")
    /\ Required(body, "content")
    /\ Required(body, "created_by")
    /\ Optional(body, "parent_id")

Comment(body) ==
    [k \in {"post_id", "content", "created_by", "parent_id"} |-> Default(body, k, None)]

Offer_validate(body) ==
    /\ Required(body, "title")
    /\ Required(body, "description")
    /\ \A k \in {"location", "stipend", "post_id"} : Optional(body, k)
    /\ Required(body, "created_by")

Offer(body) ==
    [k \in {"title", "description", "location", "stipend", "post_id", "created_by"} |->
        Default(body, k, None)]

\* ------------------------------------------------------------- state
VARIABLES
    store,    \* the database: collection name -> sequence of documents (natural order)
    nextId,   \* the store's identifier generator: the next ObjectId it assigns
    now,      \* the clock read at the last insert
    resp,     \* one request at a time: the request answered and its response
    issued,   \* history: every successful create, <<collection, record, returned id>>
    reqs,     \* concurrent requests: worker thread -> the request it is handling
    ser       \* the serialization helpers applied to a given input

vars == <<store, nextId, now, resp, issued, reqs, ser>>

Collections == {"user", "post", "comment", "offer"}
Workers == 1..MaxWorkers
Integer(n) == <<"int", n>>

\* ------------------------------------------------------- the database
\* The document an insert stores: the record's fields, the creation timestamp
\* and the identifier the store assigns.
StoredDoc(data, id, t) ==
    [k \in DOMAIN data \cup {"_id", "created_at"} |->
        IF k = "_id" THEN ObjectId(id)
        ELSE IF k = "created_at" THEN DateTime(t) ELSE data[k]]

\* The clock at an insert: it has advanced since the last insert, or has not.
Clock == IF nextId = 1 THEN {now} ELSE {now, now + 1}

\* create_document(collection_name, data): one new document in the collection;
\* the identifier it returns is inserted_id(nextId).
inserted_id(id) == str(ObjectId(id))

create_document(collection_name, data, t) ==
    /\ nextId <= MaxDocs
    /\ store' = [store EXCEPT ![collection_name] = Append(@, StoredDoc(data, nextId, t))]
    /\ nextId' = nextId + 1
    /\ now' = t

\* A filter condition: a literal (exact match) or <<"$in", values>>.
In(values) == <<"$in", values>>

Matches(doc, filt) ==
    \A k \in DOMAIN filt :
        /\ k \in DOMAIN doc
        /\ IF filt[k][1] = "$in"
           THEN /\ isinstance(doc[k], "list")
                /\ \E i \in 1..Len(doc[k][2]) : \E j \in 1..Len(filt[k][2]) :
                       doc[k][2][i] = filt[k][2][j]
           ELSE doc[k] = filt[k]

Matching(collection_name, filt) ==
    {i \in 1..Len(store[collection_name]) : Matches(store[collection_name][i], filt)}

\* get_documents(collection_name, filt, limit): the results the store may return,
\* min(limit, matching) of the matching documents, in an order it chooses.
get_documents(collection_name, filt, limit) ==
    LET idx == Matching(collection_name, filt)
        n == Min(limit, Cardinality(idx))
    IN  {[j \in 1..n |-> store[collection_name][p[j]]] :
            p \in {q \in [1..n -> idx] : \A a, b \in 1..n : a # b => q[a] # q[b]}}

\* A document another client of the database wrote: no creation timestamp.
ExternalInsert(collection_name, data) ==
    /\ resp = [op |-> "none", status |-> 0, req |-> <<>>, body |-> <<>>]
    /\ nextId <= MaxDocs
    /\ store' = [store EXCEPT ![collection_name] =
                    Append(@, [k \in DOMAIN data \cup {"_id"} |->
                                  IF k = "_id" THEN ObjectId(nextId) ELSE data[k]])]
    /\ nextId' = nextId + 1
    /\ UNCHANGED <<now, resp, issued, reqs, ser>>

\* ---------------------------------------------------------- endpoints
CreateOps == {"create_user", "create_post", "create_comment", "create_offer"}
ListOps == {"list_users", "list_posts", "list_comments", "list_offers"}

\* Query(default, ge=, le=): the limit parameter is absent or within range.
Query_validate(limit, ge, le) ==
    limit = None \/ (isinstance(limit, "int") /\ ge <= limit[2] /\ limit[2] <= le)
Query_value(limit, dflt) == IF limit = None THEN dflt ELSE limit[2]

\* The filter a list endpoint builds: a key for each parameter that is truthy.
Filter(keys, vals) == [k \in keys |-> vals[k]]

list_users_filt(role) ==
    Filter({k \in {"role"} : Truthy(role)}, [role |-> role])

\* list_posts with filt["tags"] = tag, an exact match.
list_posts_filt_exact(type, tag, created_by) ==
    Filter({k \in {"type"} : Truthy(type)} \cup {k \in {"created_by"} : Truthy(created_by)}
              \cup {k \in {"tags"} : Truthy(tag)},
           [type |-> type, created_by |-> created_by, tags |-> tag])

list_posts_filt(type, tag, created_by) ==
    Filter({k \in {"type"} : Truthy(type)} \cup {k \in {"created_by"} : Truthy(created_by)}
              \cup {k \in {"tags"} : Truthy(tag)},
           [type |-> type, created_by |-> created_by, tags |-> In(<<tag>>)])

list_offers_filt(post_id, created_by) ==
    Filter({k \in {"post_id"} : Truthy(post_id)} \cup {k \in {"created_by"} : Truthy(created_by)},
           [post_id |-> post_id, created_by |-> created_by])

\* create_offer pasted from create_post, its collection name left as "post".
collection_name_pasted(op) ==
    CASE op \in {"create_user", "list_users"} -> "user"
      [] op \in {"create_post", "list_posts", "create_offer"} -> "post"
      [] op \in {"create_comment", "list_comments"} -> "comment"
      [] op \in {"list_offers"} -> "offer"

\* The collection each endpoint names.
collection_name(op) ==
    CASE op \in {"create_user", "list_users"} -> "user"
      [] op \in {"create_post", "list_posts"} -> "post"
      [] op \in {"create_comment", "list_comments"} -> "comment"
      [] op \in {"create_offer", "list_offers"} -> "offer"

\* The validation of a request before its handler runs: the body against the
\* record definition, the query parameters against their declarations.
validate(op, req) ==
    CASE op = "create_user" -> User_validate(req)
      [] op = "create_post" -> Post_validate(req)
      [] op = "create_comment" -> Comment_validate(req)
      [] op = "create_offer" -> Offer_validate(req)
      [] op = "list_users" -> TRUE
      [] op = "list_posts" -> Query_validate(req.limit, 1, 200)
      [] op = "list_comments" ->
            isinstance(req.post_id, "str") /\ Query_validate(req.limit, 1, 500)
      [] op = "list_offers" -> Query_validate(req.limit, 1, 300)

\* The validated record a create handler is given.
record(op, body) ==
    CASE op = "create_user" -> User(body)
      [] op = "create_post" -> Post(body)
      [] op = "create_comment" -> Comment(body)
      [] op = "create_offer" -> Offer(body)

\* filt and limit as a list handler passes them to get_documents.
filt(op, req) ==
    CASE op = "list_users" -> list_users_filt(req.role)
      [] op = "list_posts" -> list_posts_filt(req.type, req.tag, req.created_by)
      [] op = "list_comments" -> [post_id |-> req.post_id]
      [] op = "list_offers" -> list_offers_filt(req.post_id, req.created_by)

\* The list handlers calling get_documents without their limit parameter.
limit_not_passed(op, req) ==
    CASE op = "list_users" -> 200
      [] op = "list_posts" -> 200
      [] op = "list_comments" -> 500
      [] op = "list_offers" -> 300

limit(op, req) ==
    CASE op = "list_users" -> 200
      [] op = "list_posts" -> Query_value(req.limit, 50)
      [] op = "list_comments" -> Query_value(req.limit, 100)
      [] op = "list_offers" -> Query_value(req.limit, 100)

\* d.get("created_at")
created_at(d) == IF "created_at" \in DOMAIN d THEN d["created_at"] ELSE None

\* list.sort raises TypeError when it has to compare a None key.
sort_raises(docs) ==
    Len(docs) >= 2 /\ \E i \in 1..Len(docs) : created_at(docs[i]) = None

\* Where a stable sort puts d into a sorted prefix: behind every element that
\* does not have to follow it.
Before(e, d, reverse) ==
    IF reverse THEN created_at(e)[2] >= created_at(d)[2]
    ELSE created_at(e)[2] <= created_at(d)[2]

InsertSorted(acc, d, reverse) ==
    LET n == Cardinality({i \in 1..Len(acc) : Before(acc[i], d, reverse)})
    IN  SubSeq(acc, 1, n) \o <<d>> \o SubSeq(acc, n + 1, Len(acc))

RECURSIVE SortFrom(_, _, _, _)
SortFrom(acc, docs, i, reverse) ==
    IF i > Len(docs) THEN acc
    ELSE SortFrom(InsertSorted(acc, docs[i], reverse), docs, i + 1, reverse)

\* The sort without reverse=True.
sort_ascending(docs, reverse) ==
    IF Len(docs) < 2 THEN docs ELSE SortFrom(<<>>, docs, 1, FALSE)

\* docs.sort(key=lambda d: d.get("created_at"), reverse=reverse)
sort(docs, reverse) ==
    IF Len(docs) < 2 THEN docs ELSE SortFrom(<<>>, docs, 1, reverse)

\* What a list handler does with the documents it fetched: list_users returns
\* them as fetched, list_comments sorts ascending, list_posts and list_offers
\* descending; a TypeError out of the sort is the 500 response.
Response(op, status, req, body) == [op |-> op, status |-> status, req |-> req, body |-> body]
NoResp == Response("none", 0, <<>>, <<>>)

list_response(op, req, docs) ==
    IF op = "list_users" THEN Response(op, 200, req, serialize_list(docs))
    ELSE IF sort_raises(docs) THEN Response(op, 500, req, <<>>)
    ELSE Response(op, 200, req, serialize_list(sort(docs, op # "list_comments")))

\* ---- one request at a time: each handler is one step
Create(op, body) ==
    /\ UNCHANGED <<reqs, ser>>
    /\ IF ~validate(op, body)
       THEN /\ resp' = Response(op, 422, body, <<>>)
            /\ UNCHANGED <<store, nextId, now, issued>>
       ELSE \E t \in Clock :
            /\ create_document(collection_name(op), record(op, body), t)
            /\ resp' = Response(op, 200, body, [id |-> inserted_id(nextId)])
            /\ issued' = Append(issued,
                    <<collection_name(op), record(op, body), inserted_id(nextId)>>)

ListDocs(op, req) ==
    /\ UNCHANGED <<store, nextId, now, issued, reqs, ser>>
    /\ IF ~validate(op, req)
       THEN resp' = Response(op, 422, req, <<>>)
       ELSE \E docs \in get_documents(collection_name(op), filt(op, req), limit(op, req)) :
                resp' = list_response(op, req, docs)

create_user(user) == Create("create_user", user)
list_users(role) == ListDocs("list_users", [role |-> role])
create_post(post) == Create("create_post", post)
list_posts(type, tag, created_by, lim) ==
    ListDocs("list_posts", [type |-> type, tag |-> tag, created_by |-> created_by, limit |-> lim])
create_comment(comment) == Create("create_comment", comment)
list_comments(post_id, lim) == ListDocs("list_comments", [post_id |-> post_id, limit |-> lim])
create_offer(offer) == Create("create_offer", offer)
list_offers(post_id, created_by, lim) ==
    ListDocs("list_offers", [post_id |-> post_id, created_by |-> created_by, limit |-> lim])

\* The response has left the server; the next request is taken.
Send == resp # NoResp /\ resp' = NoResp /\ UNCHANGED <<store, nextId, now, issued, reqs, ser>>

\* ---- concurrent requests: a handler thread per request, interleaved at its
\* calls into the database
Request(op, pc, req, local) == [op |-> op, pc |-> pc, req |-> req, local |-> local]
NoRequest == Request("none", "idle", <<>>, <<>>)

\* The request is validated and its handler starts, or it is rejected.
Begin(w, op, req) ==
    /\ reqs[w] = NoRequest
    /\ validate(op, req)
    /\ reqs' = [reqs EXCEPT ![w] = Request(op, "handler", req, <<>>)]
    /\ UNCHANGED <<store, nextId, now, resp, issued, ser>>

Reject(w, op, req) ==
    /\ reqs[w] = NoRequest
    /\ ~validate(op, req)
    /\ reqs' = [reqs EXCEPT ![w] = Request(op, "rejected", req, <<>>)]
    /\ UNCHANGED <<store, nextId, now, resp, issued, ser>>

\* inserted_id = create_document(...)
Insert(w) ==
    /\ reqs[w].pc = "handler" /\ reqs[w].op \in CreateOps
    /\ \E t \in Clock :
          create_document(collection_name(reqs[w].op), record(reqs[w].op, reqs[w].req), t)
    /\ reqs' = [reqs EXCEPT ![w].pc = "inserted", ![w].local = inserted_id(nextId)]
    /\ UNCHANGED <<resp, issued, ser>>

\* inserted_id kept in a module-level variable the handler threads share.
returned_id_shared(w) == inserted_id(nextId - 1)

\* return {"id": inserted_id}
returned_id(w) == reqs[w].local

ReturnId(w) ==
    /\ reqs[w].pc = "inserted"
    /\ issued' = Append(issued, <<collection_name(reqs[w].op),
                                  record(reqs[w].op, reqs[w].req), returned_id(w)>>)
    /\ reqs' = [reqs EXCEPT ![w] = NoRequest]
    /\ UNCHANGED <<store, nextId, now, resp, ser>>

\* docs = get_documents(...); docs.sort(...); return serialize_list(docs): one
\* read of the database, and the response is sent.
Fetch(w) ==
    /\ reqs[w].pc = "handler" /\ reqs[w].op \in ListOps
    /\ get_documents(collection_name(reqs[w].op), filt(reqs[w].op, reqs[w].req),
                     limit(reqs[w].op, reqs[w].req)) # {}
    /\ reqs' = [reqs EXCEPT ![w] = NoRequest]
    /\ UNCHANGED <<store, nextId, now, resp, issued, ser>>

\* The rejection is sent.
Return(w) ==
    /\ reqs[w].pc = "rejected"
    /\ reqs' = [reqs EXCEPT ![w] = NoRequest]
    /\ UNCHANGED <<store, nextId, now, resp, issued, ser>>

\* ---- the serialization helpers on their own
Serialize ==
    /\ ser.pc = "input"
    /\ ser' = [ser EXCEPT !.pc = "once", !.out = serialize_list(ser.docs)]
    /\ UNCHANGED <<store, nextId, now, resp, issued, reqs>>

SerializeAgain ==
    /\ ser.pc = "once"
    /\ ser' = [ser EXCEPT !.pc = "twice", !.again = serialize_list(ser.out)]
    /\ UNCHANGED <<store, nextId, now, resp, issued, reqs>>

\* ------------------------------------------------------------- inputs
UserBodies ==
    {[name |-> Str("Ann"), email |-> Str("ann@campus.edu"), role |-> Str(r)] :
        r \in {"student", "company", "admin"}}
    \cup {[name |-> Str("Ann"), email |-> Str("ann-at-campus"), role |-> Str("student")],
          [email |-> Str("ann@campus.edu"), role |-> Str("student")]}

PostBodies ==
    {[type |-> Str(ty), title |-> Str("T"), content |-> Str("C"),
      tags |-> List(<<Str("a"), Str("b")>>), created_by |-> Str("u1")] :
        ty \in {"question", "poll"}}
    \cup {[type |-> Str("discussion"), title |-> Str("T"), content |-> Str("C"),
           created_by |-> Str("u2")],
          [type |-> Str("question"), content |-> Str("C"), created_by |-> Str("u1")]}

CommentBodies ==
    {[post_id |-> Str(p), content |-> Str("C"), created_by |-> Str("u1")] : p \in {"p1", "p2"}}
    \cup {[content |-> Str("C"), created_by |-> Str("u1")]}

OfferBodies ==
    {[title |-> Str("T"), description |-> Str("D"), post_id |-> Str("p1"),
      created_by |-> Str("u1")],
     [title |-> Str("T"), description |-> Str("D"), created_by |-> Str("u2")],
     [title |-> Str("T"), created_by |-> Str("u1")]}

RoleParams == {None, Str(""), Str("student"), Str("admin")}
TypeParams == {None, Str("question")}
TagParams == {None, Str(""), Str("a"), Str("c")}
AuthorParams == {None, Str("u1")}
PostIdParams == {None, Str("p1")}
LimitParams(le) == {None, Integer(0), Integer(1), Integer(2), Integer(le + 1)}

\* A query string sets at most two of an endpoint's parameters, and a limit
\* out of range comes alone.
Sparse(q) ==
    /\ Cardinality({k \in DOMAIN q : q[k] # None}) <= 2
    /\ q.limit \notin {None, Integer(1), Integer(2)} =>
          \A k \in DOMAIN q \ {"limit"} : q[k] = None

PostQueries ==
    {q \in [type : TypeParams, tag : TagParams, created_by : AuthorParams,
            limit : LimitParams(200)] : Sparse(q)}
CommentQueries ==
    {q \in [post_id : PostIdParams, limit : LimitParams(500)] :
        q.post_id = None => q.limit = None}
OfferQueries ==
    {q \in [post_id : PostIdParams, created_by : AuthorParams, limit : LimitParams(300)] :
        Sparse(q)}

\* ------------------------------------------------------ specification
Init ==
    /\ store = [c \in Collections |-> <<>>]
    /\ nextId = 1
    /\ now = 0
    /\ resp = NoResp
    /\ issued = <<>>
    /\ reqs = [w \in Workers |-> NoRequest]
    /\ ser = [pc |-> "none", docs |-> <<>>, out |-> <<>>, again |-> <<>>]

Idle == resp = NoResp

Next ==
    \/ Idle /\ \E user \in UserBodies : create_user(user)
    \/ Idle /\ \E role \in RoleParams : list_users(role)
    \/ Idle /\ \E post \in PostBodies : create_post(post)
    \/ Idle /\ \E q \in PostQueries : list_posts(q.type, q.tag, q.created_by, q.limit)
    \/ Idle /\ \E comment \in CommentBodies : create_comment(comment)
    \/ Idle /\ \E q \in CommentQueries : list_comments(q.post_id, q.limit)
    \/ Idle /\ \E offer \in OfferBodies : create_offer(offer)
    \/ Idle /\ \E q \in OfferQueries : list_offers(q.post_id, q.created_by, q.limit)
    \/ Send

Spec == Init /\ [][Next]_vars

\* Concurrent requests. Handlers are plain functions, which the framework runs
\* in worker threads: they interleave at their calls into the database.
ConcRequests ==
    {<<"create_post", [type |-> Str(ty), title |-> Str("T"), content |-> Str("C"),
                       tags |-> List(<<Str("a"), Str("b")>>), created_by |-> Str("u1")]>> :
        ty \in {"question", "poll"}}
    \cup {<<"create_comment", [post_id |-> Str("p1"), content |-> Str("C"),
                               created_by |-> Str("u1")]>>,
          <<"list_posts", [type |-> None, tag |-> None, created_by |-> None,
                           limit |-> Integer(2)]>>}

NextConc ==
    \E w \in Workers :
        \/ \E r \in ConcRequests : Begin(w, r[1], r[2])
        \/ \E r \in ConcRequests : Reject(w, r[1], r[2])
        \/ Insert(w)
        \/ ReturnId(w)
        \/ Fetch(w)
        \/ Return(w)

SpecConc == Init /\ [][NextConc]_vars

\* The database also holds documents this program did not write.
ExternalDocs ==
    {<<"post", Post([type |-> Str("question"), title |-> Str("T"), content |-> Str("C"),
                     created_by |-> Str("u1")])>>,
     <<"comment", Comment([post_id |-> Str("p1"), content |-> Str("C"),
                           created_by |-> Str("u1")])>>,
     <<"offer", Offer([title |-> Str("T"), description |-> Str("D"),
                       created_by |-> Str("u1")])>>}

NextExt ==
    \/ \E e \in ExternalDocs : ExternalInsert(e[1], e[2])
    \/ Idle /\ \E post \in PostBodies : create_post(post)
    \/ Idle /\ \E q \in PostQueries : list_posts(q.type, q.tag, q.created_by, q.limit)
    \/ Idle /\ \E comment \in CommentBodies : create_comment(comment)
    \/ Idle /\ \E q \in CommentQueries : list_comments(q.post_id, q.limit)
    \/ Idle /\ \E offer \in OfferBodies : create_offer(offer)
    \/ Idle /\ \E q \in OfferQueries : list_offers(q.post_id, q.created_by, q.limit)
    \/ Send

SpecExt == Init /\ [][NextExt]_vars

\* The serialization helpers on every document built from these fields, and on
\* every sequence of up to MaxSeqLen of them.
Absent == <<"absent">>
SerFields ==
    [_id : {Absent, ObjectId(1), ObjectId(2)},
     id : {Absent, Str("x"), Str("oid1")},
     post_id : {Absent, ObjectId(1), Str("p1")},
     likes : {Absent, List(<<ObjectId(1), Str("a")>>)}]
SerDocs == {[k \in {f \in DOMAIN c : c[f] # Absent} |-> c[k]] : c \in SerFields}
SerInputs == UNION {[1..n -> SerDocs] : n \in 0..MaxSeqLen}

InitSer ==
    /\ store = [c \in Collections |-> <<>>]
    /\ nextId = 1
    /\ now = 0
    /\ resp = NoResp
    /\ issued = <<>>
    /\ reqs = [w \in Workers |-> NoRequest]
    /\ ser \in {[pc |-> "input", docs |-> ds, out |-> <<>>, again |-> <<>>] : ds \in SerInputs}

NextSer == Serialize \/ SerializeAgain

SpecSer == InitSer /\ [][NextSer]_vars

\* ============================================================ properties
\* What the properties say of a request, stated apart from the handlers.
EntityOf(op) ==
    CASE op \in {"create_user", "list_users"} -> "user"
      [] op \in {"create_post", "list_posts"} -> "post"
      [] op \in {"create_comment", "list_comments"} -> "comment"
      [] op \in {"create_offer", "list_offers"} -> "offer"

\* The limit a list request asks for: fixed for users, else the parameter or
\* the endpoint's default.
AskedLimit(r) ==
    IF r.op = "list_users" THEN 200
    ELSE IF r.req.limit # None THEN r.req.limit[2]
    ELSE IF r.op = "list_posts" THEN 50 ELSE 100

LimitRange(op) ==
    CASE op = "list_users" -> {200}
      [] op = "list_posts" -> 1..200
      [] op = "list_comments" -> 1..500
      [] op = "list_offers" -> 1..300

Listed == resp.op \in ListOps /\ resp.status = 200
NMatching == Cardinality(Matching(EntityOf(resp.op), filt(resp.op, resp.req)))
IdOf(doc) == Str("oid" \o ToString(doc["_id"][2]))
Returned(doc) ==
    \E i \in 1..Len(resp.body) :
        "id" \in DOMAIN resp.body[i] /\ resp.body[i]["id"] = IdOf(doc)
FieldsEqual(out, r) == \A k \in DOMAIN r : k \in DOMAIN out /\ out[k] = r[k]
TimeAt(i) == resp.body[i]["created_at"][2]
DistinctTimes(c) ==
    \A i, j \in 1..Len(store[c]) :
        i # j => store[c][i]["created_at"] # store[c][j]["created_at"]

\* ---- C1
LastIssued == issued[Len(issued)]
C1_Case ==
    /\ Listed
    /\ issued # <<>>
    /\ LastIssued[1] = EntityOf(resp.op)
    /\ DOMAIN filt(resp.op, resp.req) # {}
    /\ Matches(LastIssued[2], filt(resp.op, resp.req))
C1_Found ==
    {i \in 1..Len(resp.body) :
        "id" \in DOMAIN resp.body[i] /\ resp.body[i]["id"] = LastIssued[3]}

\* C1 as stated: a list request after the insert of record r, with a filter r
\* matches, returns exactly one document, which has r's fields and,
\* under id, the identifier the insert returned.
C1_ExactlyOne ==
    C1_Case =>
        /\ Len(resp.body) = 1
        /\ C1_Found = {1}
        /\ FieldsEqual(resp.body[1], LastIssued[2])

\* C1 (amended): a list request after the insert of record r, with a filter r
\* matches and a limit the matching documents do not exceed, returns every
\* matching document, and exactly one of them carries under id the identifier
\* the insert returned: it has r's fields, id and created_at, and nothing else.
C1_RoundTrip ==
    (C1_Case /\ NMatching <= AskedLimit(resp)) =>
        /\ Len(resp.body) = NMatching
        /\ Cardinality(C1_Found) = 1
        /\ \A i \in C1_Found :
              /\ FieldsEqual(resp.body[i], LastIssued[2])
              /\ DOMAIN resp.body[i] = DOMAIN LastIssued[2] \cup {"id", "created_at"}

C1_Witness ==
    /\ C1_Case
    /\ resp.op = "list_posts"
    /\ resp.req.tag = Str("a")
    /\ Len(resp.body) = 2
    /\ Cardinality(C1_Found) = 1

\* ---- C2
\* C2: a list response holds at most the limit asked for, which lies in the
\* endpoint's range; when more documents match than the limit, it holds
\* exactly limit documents.
C2_LimitEnforced ==
    Listed =>
        /\ AskedLimit(resp) \in LimitRange(resp.op)
        /\ Len(resp.body) <= AskedLimit(resp)
        /\ NMatching > AskedLimit(resp) => Len(resp.body) = AskedLimit(resp)

C2_Witness ==
    /\ Listed
    /\ resp.op = "list_posts"
    /\ resp.req.limit = Integer(2)
    /\ NMatching = 3
    /\ Len(resp.body) = 2

\* ---- C3
\* C3: when the documents of the collection were inserted at distinct times,
\* list_posts and list_offers return theirs in strictly descending order of
\* created_at, list_comments in strictly ascending order.
C3_Ordering ==
    (Listed /\ resp.op # "list_users" /\ DistinctTimes(EntityOf(resp.op))) =>
        \A i, j \in 1..Len(resp.body) :
            i < j => IF resp.op = "list_comments" THEN TimeAt(i) < TimeAt(j)
                     ELSE TimeAt(i) > TimeAt(j)

C3_Witness ==
    /\ Listed
    /\ resp.op = "list_posts"
    /\ DistinctTimes("post")
    /\ Len(resp.body) = 3
    /\ TimeAt(1) > TimeAt(2) /\ TimeAt(2) > TimeAt(3)

\* ---- C4
Has(body, ks) == ks \subseteq DOMAIN body
Violates(op, body) ==
    CASE op = "create_user" ->
            IF Has(body, {"name", "email", "role"})
            THEN body["role"][2] \notin {"student", "professor", "company"}
                 \/ body["email"][2] \notin ValidEmails
            ELSE TRUE
      [] op = "create_post" ->
            IF Has(body, {"type", "title", "content", "created_by"})
            THEN body["type"][2] \notin {"question", "internship_request", "discussion"}
            ELSE TRUE
      [] op = "create_comment" -> ~Has(body, {"post_id", "content", "created_by"})
      [] op = "create_offer" -> ~Has(body, {"title", "description", "created_by"})

\* C4: a create request whose record violates the entity's constraints is
\* answered with a validation error, and the step leaves every collection, the
\* identifier generator and the history of creates as they were.
C4_ValidationGate ==
    [][(resp'.op \in CreateOps /\ Violates(resp'.op, resp'.req)) =>
          /\ resp'.status = 422
          /\ store' = store
          /\ nextId' = nextId
          /\ issued' = issued]_vars

C4_Witness ==
    /\ resp.op = "create_user"
    /\ resp.status = 422
    /\ "role" \in DOMAIN resp.req /\ resp.req["role"] = Str("admin")
    /\ Len(store["user"]) = 1
    /\ Len(issued) = 1

\* ---- C5
Inserted == {w \in Workers : reqs[w].pc = "inserted"}
TotalDocs == Len(store["user"]) + Len(store["post"]) + Len(store["comment"]) + Len(store["offer"])
Docs == {<<c, i>> : c \in Collections, i \in 1..MaxDocs + 1}
StoredDocs == {d \in Docs : d[2] <= Len(store[d[1]])}

\* C5: under concurrent requests, the identifiers returned by creates are
\* pairwise distinct; each is the identifier of exactly one document, which is
\* in the collection of its request and holds its record; no two documents
\* share an identifier; every insert made is a document: returned or about to
\* be; and no valid create is answered with an error.
C5_ConcurrentInserts ==
    /\ \A i, j \in 1..Len(issued) : i # j => issued[i][3] # issued[j][3]
    /\ \A i \in 1..Len(issued) :
          /\ \A c \in Collections \ {issued[i][1]} :
                \A k \in 1..Len(store[c]) : IdOf(store[c][k]) # issued[i][3]
          /\ \E k \in 1..Len(store[issued[i][1]]) :
                /\ IdOf(store[issued[i][1]][k]) = issued[i][3]
                /\ FieldsEqual(store[issued[i][1]][k], issued[i][2])
                /\ \A m \in 1..Len(store[issued[i][1]]) :
                      m # k => IdOf(store[issued[i][1]][m]) # issued[i][3]
    /\ Cardinality({store[d[1]][d[2]]["_id"] : d \in StoredDocs}) = TotalDocs
    /\ TotalDocs = Len(issued) + Cardinality(Inserted)
    /\ \A w \in Workers :
          (reqs[w].pc = "rejected" /\ reqs[w].op \in CreateOps) =>
              Violates(reqs[w].op, reqs[w].req)

\* Two creates in the same collection whose responses come in the other order
\* than their inserts.
C5_Witness ==
    /\ Len(issued) = 2
    /\ issued[1][1] = "post" /\ issued[2][1] = "post"
    /\ issued[1][3] = Str("oid2")
    /\ issued[2][3] = Str("oid1")
    /\ Len(store["post"]) = 2

\* ---- C6
Canonical(v) == Str("oid" \o ToString(v[2]))
IsIdentifier(v) == v[1] = "ObjectId"
Converted(d, o, k) ==
    k \in DOMAIN o /\ o[k] = (IF IsIdentifier(d[k]) THEN Canonical(d[k]) ELSE d[k])
Identity(d, o) ==
    /\ "_id" \notin DOMAIN o
    /\ "_id" \in DOMAIN d => ("id" \in DOMAIN o /\ o["id"] = Canonical(d["_id"]))
    /\ DOMAIN o \subseteq (DOMAIN d \ {"_id"}) \cup {"id"}
Serialized == ser.pc \in {"once", "twice"}

\* C6 as stated: the output has the input's length and order; each document's
\* identity is under id and not under _id, and every other field is there,
\* an identifier as its canonical string and anything else unchanged.
C6_AllOtherFields ==
    Serialized =>
        /\ Len(ser.out) = Len(ser.docs)
        /\ \A i \in 1..Len(ser.docs) :
              /\ Identity(ser.docs[i], ser.out[i])
              /\ \A k \in DOMAIN ser.docs[i] \ {"_id"} :
                    Converted(ser.docs[i], ser.out[i], k)

\* C6 (amended): as above for every top-level field, except that in a document
\* with an _id a field already named id is replaced by the identity.
C6_Serialization ==
    Serialized =>
        /\ Len(ser.out) = Len(ser.docs)
        /\ \A i \in 1..Len(ser.docs) :
              /\ Identity(ser.docs[i], ser.out[i])
              /\ \A k \in DOMAIN ser.docs[i] \ {"_id"} :
                    (k = "id" /\ "_id" \in DOMAIN ser.docs[i])
                    \/ Converted(ser.docs[i], ser.out[i], k)

C6_Witness ==
    /\ ser.pc = "once"
    /\ Len(ser.docs) = 2
    /\ ser.docs[1] # ser.docs[2]
    /\ DOMAIN ser.docs[1] = {"_id", "id", "post_id", "likes"}
    /\ ser.docs[1]["post_id"] = ObjectId(1)
    /\ ser.docs[1]["id"] = Str("x")
    /\ ser.out[1]["id"] = Str("oid" \o ToString(ser.docs[1]["_id"][2]))

\* ---- C7
\* C7: serializing what serialization returned changes nothing.
C7_Idempotent == ser.pc = "twice" => ser.again = ser.out

C7_Witness ==
    /\ ser.pc = "twice"
    /\ Len(ser.docs) = 1
    /\ {"_id", "id"} \subseteq DOMAIN ser.docs[1]
    /\ ser.out # ser.docs
    /\ ser.again = ser.out

\* ---- C8
HasTag(p, t) == \E i \in 1..Len(p["tags"][2]) : p["tags"][2][i] = t
OtherFilters(p, req) ==
    /\ req.type # None => p["type"] = req.type
    /\ req.created_by # None => p["created_by"] = req.created_by
TagQuery == Listed /\ resp.op = "list_posts" /\ resp.req.tag # None
Tagged ==
    {i \in 1..Len(store["post"]) :
        /\ resp.req.tag # Str("") => HasTag(store["post"][i], resp.req.tag)
        /\ OtherFilters(store["post"][i], resp.req)}

C9_Completes ==
    resp.op \in {"list_posts", "list_comments", "list_offers"} => resp.status # 500

\* ---- C10
StepOf(ops) ==
    \/ resp.op = "none" /\ resp'.op \in ops
    \/ \E w \in Workers : reqs'[w] # reqs[w] /\ reqs[w].op \in ops
CreateInto(c) ==
    \/ resp.op = "none" /\ resp'.op \in CreateOps /\ resp'.status = 200
          /\ EntityOf(resp'.op) = c
    \/ \E w \in Workers :
          /\ reqs[w].op \in CreateOps /\ EntityOf(reqs[w].op) = c
          /\ reqs[w].pc = "handler" /\ reqs'[w].pc = "inserted"

\* C10: in every step each collection keeps the documents it has, in place and
\* unchanged, and grows by at most one; a step of a list request leaves every
\* collection as it is; a create that inserts adds exactly one document to its
\* own collection and none to another; and no other step changes a collection.
C10_Immutable ==
    [][IF store' = store
       THEN \A c \in Collections : ~CreateInto(c)
       ELSE /\ ~StepOf(ListOps)
            /\ \E c \in Collections :
                  /\ CreateInto(c)
                  /\ Len(store'[c]) = Len(store[c]) + 1
                  /\ \A i \in 1..Len(store[c]) : store'[c][i] = store[c][i]
                  /\ \A d \in Collections \ {c} : store'[d] = store[d]]_vars

C10_Witness ==
    /\ resp.op = "create_offer"
    /\ resp.status = 200
    /\ Len(store["offer"]) = 2
    /\ Len(store["post"]) = 1

====
